---- MODULE Spec2Model ----
(***************************************************************************)
(* A model of pygatt's BLEDevice (src/pygatt/device.py): the session that  *)
(* resolves characteristic UUIDs to attribute handles against a cached     *)
(* service catalog, subscribes and unsubscribes to notifications by        *)
(* writing the characteristic configuration, and dispatches incoming       *)
(* notifications to the registered callbacks.                              *)
(*                                                                         *)
(* Every thread of the application or of the transport is a process with   *)
(* a program counter; one action is one step of a method between two       *)
(* accesses to the shared state of the session.                            *)
(***************************************************************************)
EXTENDS Integers, Sequences, FiniteSets, TLC

----------------------------------------------------------------------------
(* Values *)

None == [type |-> "None"]

\* The threads that call into the session.
Threads == {"t1", "t2"}

\* Longest run of identical subscribe calls that the history counts.
MaxRun == 2

\* The number of calls made on the session in one behaviour: of calls that
\* follow one another, and of calls of concurrent threads.
MaxCalls == 3
MaxConcurrentCalls == 3

----------------------------------------------------------------------------
(* uuid.UUID(hex): the conversion get_handle applies to string arguments.  *)
(* A string is the sequence of its characters, one element per code point: *)
(* a printable ASCII character is itself, "\t", "\n", "\r" and "\f" are    *)
(* the escapes, and any other character is written by its code point, as   *)
(* "U+000B" or "U+FF11".  UUID.int, a 128 bit integer, is kept as its      *)
(* eight 16 bit limbs, most significant first.                             *)

HexChars == {"0", "1", "2", "3", "4", "5", "6", "7", "8", "9",
             "a", "b", "c", "d", "e", "f", "A", "B", "C", "D", "E", "F"}

HexVal(c) ==
    CASE c = "0" -> 0 [] c = "1" -> 1 [] c = "2" -> 2 [] c = "3" -> 3
      [] c = "4" -> 4 [] c = "5" -> 5 [] c = "6" -> 6 [] c = "7" -> 7
      [] c = "8" -> 8 [] c = "9" -> 9
      [] c \in {"a", "A"} -> 10 [] c \in {"b", "B"} -> 11
      [] c \in {"c", "C"} -> 12 [] c \in {"d", "D"} -> 13
      [] c \in {"e", "E"} -> 14 [] c \in {"f", "F"} -> 15

\* s.replace(old, ''): the occurrences of old, from the left, removed
RECURSIVE Remove(_, _)
Remove(s, old) ==
    IF Len(s) < Len(old) THEN s
    ELSE IF SubSeq(s, 1, Len(old)) = old
         THEN Remove(SubSeq(s, Len(old) + 1, Len(s)), old)
         ELSE <<Head(s)>> \o Remove(Tail(s), old)

\* hex.replace('-', '')
RECURSIVE RemoveHyphens(_)
RemoveHyphens(s) ==
    IF s = <<>> THEN <<>>
    ELSE IF Head(s) = "-" THEN RemoveHyphens(Tail(s))
    ELSE <<Head(s)>> \o RemoveHyphens(Tail(s))

\* hex.strip('{}')
RECURSIVE StripBraces(_)
StripBraces(s) ==
    IF s = <<>> THEN <<>>
    ELSE IF Head(s) \in {"{", "}"} THEN StripBraces(Tail(s))
    ELSE IF s[Len(s)] \in {"{", "}"} THEN StripBraces(SubSeq(s, 1, Len(s) - 1))
    ELSE s

\* int(hex[4k-3 .. 4k], 16)
Limb(hex, k) ==
    ((HexVal(hex[4 * k - 3]) * 16 + HexVal(hex[4 * k - 2])) * 16
        + HexVal(hex[4 * k - 1])) * 16 + HexVal(hex[4 * k])

UUIDObject(int) == [type |-> "UUID", int |-> int]

\* The white space int() skips at both ends of its argument: the ASCII
\* characters 0x09 to 0x0d and the blank.
Whitespace == {" ", "\t", "\n", "U+000B", "\f", "\r"}

\* The characters outside ASCII that str.isspace() holds of.
UnicodeSpaces ==
    {"U+0085", "U+00A0", "U+1680", "U+2000", "U+2001", "U+2002", "U+2003",
     "U+2004", "U+2005", "U+2006", "U+2007", "U+2008", "U+2009", "U+200A",
     "U+2028", "U+2029", "U+202F", "U+205F", "U+3000"}

\* The decimal digits outside ASCII (category Nd of Unicode 14.0.0, the
\* database of CPython 3.11): UnicodeDigits[v + 1] are the digits of value v.
UnicodeDigits == <<
    {"U+0660", "U+06F0", "U+07C0", "U+0966", "U+09E6", "U+0A66", "U+0AE6",
     "U+0B66", "U+0BE6", "U+0C66", "U+0CE6", "U+0D66", "U+0DE6", "U+0E50",
     "U+0ED0", "U+0F20", "U+1040", "U+1090", "U+17E0", "U+1810", "U+1946",
     "U+19D0", "U+1A80", "U+1A90", "U+1B50", "U+1BB0", "U+1C40", "U+1C50",
     "U+A620", "U+A8D0", "U+A900", "U+A9D0", "U+A9F0", "U+AA50", "U+ABF0",
     "U+FF10", "U+104A0", "U+10D30", "U+11066", "U+110F0", "U+11136",
     "U+111D0", "U+112F0", "U+11450", "U+114D0", "U+11650", "U+116C0",
     "U+11730", "U+118E0", "U+11950", "U+11C50", "U+11D50", "U+11DA0",
     "U+16A60", "U+16AC0", "U+16B50", "U+1D7CE", "U+1D7D8", "U+1D7E2",
     "U+1D7EC", "U+1D7F6", "U+1E140", "U+1E2F0", "U+1E950", "U+1FBF0"},
    {"U+0661", "U+06F1", "U+07C1", "U+0967", "U+09E7", "U+0A67", "U+0AE7",
     "U+0B67", "U+0BE7", "U+0C67", "U+0CE7", "U+0D67", "U+0DE7", "U+0E51",
     "U+0ED1", "U+0F21", "U+1041", "U+1091", "U+17E1", "U+1811", "U+1947",
     "U+19D1", "U+1A81", "U+1A91", "U+1B51", "U+1BB1", "U+1C41", "U+1C51",
     "U+A621", "U+A8D1", "U+A901", "U+A9D1", "U+A9F1", "U+AA51", "U+ABF1",
     "U+FF11", "U+104A1", "U+10D31", "U+11067", "U+110F1", "U+11137",
     "U+111D1", "U+112F1", "U+11451", "U+114D1", "U+11651", "U+116C1",
     "U+11731", "U+118E1", "U+11951", "U+11C51", "U+11D51", "U+11DA1",
     "U+16A61", "U+16AC1", "U+16B51", "U+1D7CF", "U+1D7D9", "U+1D7E3",
     "U+1D7ED", "U+1D7F7", "U+1E141", "U+1E2F1", "U+1E951", "U+1FBF1"},
    {"U+0662", "U+06F2", "U+07C2", "U+0968", "U+09E8", "U+0A68", "U+0AE8",
     "U+0B68", "U+0BE8", "U+0C68", "U+0CE8", "U+0D68", "U+0DE8", "U+0E52",
     "U+0ED2", "U+0F22", "U+1042", "U+1092", "U+17E2", "U+1812", "U+1948",
     "U+19D2", "U+1A82", "U+1A92", "U+1B52", "U+1BB2", "U+1C42", "U+1C52",
     "U+A622", "U+A8D2", "U+A902", "U+A9D2", "U+A9F2", "U+AA52", "U+ABF2",
     "U+FF12", "U+104A2", "U+10D32", "U+11068", "U+110F2", "U+11138",
     "U+111D2", "U+112F2", "U+11452", "U+114D2", "U+11652", "U+116C2",
     "U+11732", "U+118E2", "U+11952", "U+11C52", "U+11D52", "U+11DA2",
     "U+16A62", "U+16AC2", "U+16B52", "U+1D7D0", "U+1D7DA", "U+1D7E4",
     "U+1D7EE", "U+1D7F8", "U+1E142", "U+1E2F2", "U+1E952", "U+1FBF2"},
    {"U+0663", "U+06F3", "U+07C3", "U+0969", "U+09E9", "U+0A69", "U+0AE9",
     "U+0B69", "U+0BE9", "U+0C69", "U+0CE9", "U+0D69", "U+0DE9", "U+0E53",
     "U+0ED3", "U+0F23", "U+1043", "U+1093", "U+17E3", "U+1813", "U+1949",
     "U+19D3", "U+1A83", "U+1A93", "U+1B53", "U+1BB3", "U+1C43", "U+1C53",
     "U+A623", "U+A8D3", "U+A903", "U+A9D3", "U+A9F3", "U+AA53", "U+ABF3",
     "U+FF13", "U+104A3", "U+10D33", "U+11069", "U+110F3", "U+11139",
     "U+111D3", "U+112F3", "U+11453", "U+114D3", "U+11653", "U+116C3",
     "U+11733", "U+118E3", "U+11953", "U+11C53", "U+11D53", "U+11DA3",
     "U+16A63", "U+16AC3", "U+16B53", "U+1D7D1", "U+1D7DB", "U+1D7E5",
     "U+1D7EF", "U+1D7F9", "U+1E143", "U+1E2F3", "U+1E953", "U+1FBF3"},
    {"U+0664", "U+06F4", "U+07C4", "U+096A", "U+09EA", "U+0A6A", "U+0AEA",
     "U+0B6A", "U+0BEA", "U+0C6A", "U+0CEA", "U+0D6A", "U+0DEA", "U+0E54",
     "U+0ED4", "U+0F24", "U+1044", "U+1094", "U+17E4", "U+1814", "U+194A",
     "U+19D4", "U+1A84", "U+1A94", "U+1B54", "U+1BB4", "U+1C44", "U+1C54",
     "U+A624", "U+A8D4", "U+A904", "U+A9D4", "U+A9F4", "U+AA54", "U+ABF4",
     "U+FF14", "U+104A4", "U+10D34", "U+1106A", "U+110F4", "U+1113A",
     "U+111D4", "U+112F4", "U+11454", "U+114D4", "U+11654", "U+116C4",
     "U+11734", "U+118E4", "U+11954", "U+11C54", "U+11D54", "U+11DA4",
     "U+16A64", "U+16AC4", "U+16B54", "U+1D7D2", "U+1D7DC", "U+1D7E6",
     "U+1D7F0", "U+1D7FA", "U+1E144", "U+1E2F4", "U+1E954", "U+1FBF4"},
    {"U+0665", "U+06F5", "U+07C5", "U+096B", "U+09EB", "U+0A6B", "U+0AEB",
     "U+0B6B", "U+0BEB", "U+0C6B", "U+0CEB", "U+0D6B", "U+0DEB", "U+0E55",
     "U+0ED5", "U+0F25", "U+1045", "U+1095", "U+17E5", "U+1815", "U+194B",
     "U+19D5", "U+1A85", "U+1A95", "U+1B55", "U+1BB5", "U+1C45", "U+1C55",
     "U+A625", "U+A8D5", "U+A905", "U+A9D5", "U+A9F5", "U+AA55", "U+ABF5",
     "U+FF15", "U+104A5", "U+10D35", "U+1106B", "U+110F5", "U+1113B",
     "U+111D5", "U+112F5", "U+11455", "U+114D5", "U+11655", "U+116C5",
     "U+11735", "U+118E5", "U+11955", "U+11C55", "U+11D55", "U+11DA5",
     "U+16A65", "U+16AC5", "U+16B55", "U+1D7D3", "U+1D7DD", "U+1D7E7",
     "U+1D7F1", "U+1D7FB", "U+1E145", "U+1E2F5", "U+1E955", "U+1FBF5"},
    {"U+0666", "U+06F6", "U+07C6", "U+096C", "U+09EC", "U+0A6C", "U+0AEC",
     "U+0B6C", "U+0BEC", "U+0C6C", "U+0CEC", "U+0D6C", "U+0DEC", "U+0E56",
     "U+0ED6", "U+0F26", "U+1046", "U+1096", "U+17E6", "U+1816", "U+194C",
     "U+19D6", "U+1A86", "U+1A96", "U+1B56", "U+1BB6", "U+1C46", "U+1C56",
     "U+A626", "U+A8D6", "U+A906", "U+A9D6", "U+A9F6", "U+AA56", "U+ABF6",
     "U+FF16", "U+104A6", "U+10D36", "U+1106C", "U+110F6", "U+1113C",
     "U+111D6", "U+112F6", "U+11456", "U+114D6", "U+11656", "U+116C6",
     "U+11736", "U+118E6", "U+11956", "U+11C56", "U+11D56", "U+11DA6",
     "U+16A66", "U+16AC6", "U+16B56", "U+1D7D4", "U+1D7DE", "U+1D7E8",
     "U+1D7F2", "U+1D7FC", "U+1E146", "U+1E2F6", "U+1E956", "U+1FBF6"},
    {"U+0667", "U+06F7", "U+07C7", "U+096D", "U+09ED", "U+0A6D", "U+0AED",
     "U+0B6D", "U+0BED", "U+0C6D", "U+0CED", "U+0D6D", "U+0DED", "U+0E57",
     "U+0ED7", "U+0F27", "U+1047", "U+1097", "U+17E7", "U+1817", "U+194D",
     "U+19D7", "U+1A87", "U+1A97", "U+1B57", "U+1BB7", "U+1C47", "U+1C57",
     "U+A627", "U+A8D7", "U+A907", "U+A9D7", "U+A9F7", "U+AA57", "U+ABF7",
     "U+FF17", "U+104A7", "U+10D37", "U+1106D", "U+110F7", "U+1113D",
     "U+111D7", "U+112F7", "U+11457", "U+114D7", "U+11657", "U+116C7",
     "U+11737", "U+118E7", "U+11957", "U+11C57", "U+11D57", "U+11DA7",
     "U+16A67", "U+16AC7", "U+16B57", "U+1D7D5", "U+1D7DF", "U+1D7E9",
     "U+1D7F3", "U+1D7FD", "U+1E147", "U+1E2F7", "U+1E957", "U+1FBF7"},
    {"U+0668", "U+06F8", "U+07C8", "U+096E", "U+09EE", "U+0A6E", "U+0AEE",
     "U+0B6E", "U+0BEE", "U+0C6E", "U+0CEE", "U+0D6E", "U+0DEE", "U+0E58",
     "U+0ED8", "U+0F28", "U+1048", "U+1098", "U+17E8", "U+1818", "U+194E",
     "U+19D8", "U+1A88", "U+1A98", "U+1B58", "U+1BB8", "U+1C48", "U+1C58",
     "U+A628", "U+A8D8", "U+A908", "U+A9D8", "U+A9F8", "U+AA58", "U+ABF8",
     "U+FF18", "U+104A8", "U+10D38", "U+1106E", "U+110F8", "U+1113E",
     "U+111D8", "U+112F8", "U+11458", "U+114D8", "U+11658", "U+116C8",
     "U+11738", "U+118E8", "U+11958", "U+11C58", "U+11D58", "U+11DA8",
     "U+16A68", "U+16AC8", "U+16B58", "U+1D7D6", "U+1D7E0", "U+1D7EA",
     "U+1D7F4", "U+1D7FE", "U+1E148", "U+1E2F8", "U+1E958", "U+1FBF8"},
    {"U+0669", "U+06F9", "U+07C9", "U+096F", "U+09EF", "U+0A6F", "U+0AEF",
     "U+0B6F", "U+0BEF", "U+0C6F", "U+0CEF", "U+0D6F", "U+0DEF", "U+0E59",
     "U+0ED9", "U+0F29", "U+1049", "U+1099", "U+17E9", "U+1819", "U+194F",
     "U+19D9", "U+1A89", "U+1A99", "U+1B59", "U+1BB9", "U+1C49", "U+1C59",
     "U+A629", "U+A8D9", "U+A909", "U+A9D9", "U+A9F9", "U+AA59", "U+ABF9",
     "U+FF19", "U+104A9", "U+10D39", "U+1106F", "U+110F9", "U+1113F",
     "U+111D9", "U+112F9", "U+11459", "U+114D9", "U+11659", "U+116C9",
     "U+11739", "U+118E9", "U+11959", "U+11C59", "U+11D59", "U+11DA9",
     "U+16A69", "U+16AC9", "U+16B59", "U+1D7D7", "U+1D7E1", "U+1D7EB",
     "U+1D7F5", "U+1D7FF", "U+1E149", "U+1E2F9", "U+1E959", "U+1FBF9"}
    >>

Digits == <<"0", "1", "2", "3", "4", "5", "6", "7", "8", "9">>

\* What int() makes of one character before it reads the number: white
\* space outside ASCII is a blank, a decimal digit outside ASCII is the
\* ASCII digit of its value; an ASCII character stays, and any other
\* character stays to be refused as a digit.
ToASCII(c) ==
    IF c \in UnicodeSpaces THEN " "
    ELSE IF \E v \in 0..9 : c \in UnicodeDigits[v + 1]
         THEN Digits[(CHOOSE v \in 0..9 : c \in UnicodeDigits[v + 1]) + 1]
    ELSE c

RECURSIVE StripWhitespace(_)
StripWhitespace(s) ==
    IF s = <<>> THEN <<>>
    ELSE IF Head(s) \in Whitespace THEN StripWhitespace(Tail(s))
    ELSE IF s[Len(s)] \in Whitespace
         THEN StripWhitespace(SubSeq(s, 1, Len(s) - 1))
    ELSE s

\* int(s, 16) takes a sign and then the prefix 0x or 0X.
Signed(s) == s # <<>> /\ Head(s) \in {"+", "-"}
Prefixed(s) == Len(s) >= 2 /\ s[1] = "0" /\ s[2] \in {"x", "X"}

\* The digits of int(s, 16): hexadecimal digits, any two of them separated
\* by one underscore at most; an underscore may also follow the prefix.
WellFormedDigits(d, prefixed) ==
    /\ d # <<>>
    /\ \A i \in 1..Len(d) : d[i] \in HexChars \cup {"_"}
    /\ d[Len(d)] # "_"
    /\ d[1] = "_" => prefixed
    /\ \A i \in 1..(Len(d) - 1) : ~(d[i] = "_" /\ d[i + 1] = "_")

\* n zeros
Zeros(n) == [i \in 1..n |-> "0"]

\* int(hex, 16) of a string of 32 characters, and the range test of UUID:
\* the limbs of the number, or ValueError.  The digits are 32 at most, so
\* the number is below 2^128; a negative number is out of range.
IntBase16(hex) ==
    LET ascii == [i \in 1..Len(hex) |-> ToASCII(hex[i])]
        stripped == StripWhitespace(ascii)
        unsigned == IF Signed(stripped) THEN Tail(stripped) ELSE stripped
        prefixed == Prefixed(unsigned)
        body == IF prefixed THEN SubSeq(unsigned, 3, Len(unsigned))
                ELSE unsigned
    IN  IF ~WellFormedDigits(body, prefixed)
        THEN [type |-> "ValueError"]
        ELSE LET digits == Remove(body, <<"_">>)
                 padded == Zeros(32 - Len(digits)) \o digits
                 int == [k \in 1..8 |-> Limb(padded, k)]
             IN  IF Signed(stripped) /\ Head(stripped) = "-"
                    /\ int # [k \in 1..8 |-> 0]
                 THEN [type |-> "ValueError"]
                 ELSE UUIDObject(int)

\* UUID(s): hex.replace('urn:', '').replace('uuid:', ''), then
\* strip('{}').replace('-', ''); a string that is not 32 characters long
\* then is badly formed (ValueError), any other goes to int(hex, 16).
ParseUUID(s) ==
    LET plain == Remove(Remove(s.chars, <<"u", "r", "n", ":">>),
                        <<"u", "u", "i", "d", ":">>)
        hex == RemoveHyphens(StripBraces(plain))
    IN  IF Len(hex) # 32 THEN [type |-> "ValueError"]
        ELSE IntBase16(hex)

String(chars) == [type |-> "str", chars |-> chars]

\* isinstance(x, string_type) and the conversion of lines 210-214.
NormalizeUUID(x) == IF x.type = "str" THEN ParseUUID(x) ELSE x

----------------------------------------------------------------------------
(* The inputs: UUIDs in their string and object forms. *)

BaseTail == <<"-", "0", "0", "0", "0", "-", "1", "0", "0", "0", "-",
              "8", "0", "0", "0", "-",
              "0", "0", "8", "0", "5", "f", "9", "b", "3", "4", "f", "b">>

\* The string of the 16 bit UUID abcd on the Bluetooth base UUID.
Str16(abcd) == String(<<"0", "0", "0", "0">> \o abcd \o BaseTail)

Uuid2a37 == ParseUUID(Str16(<<"2", "a", "3", "7">>))
Uuid2a38 == ParseUUID(Str16(<<"2", "a", "3", "8">>))
Uuid180d == ParseUUID(Str16(<<"1", "8", "0", "d">>))
Uuid180f == ParseUUID(Str16(<<"1", "8", "0", "f">>))

CharUuidInputs ==
    { Str16(<<"2", "a", "3", "7">>),            \* in the catalogs
      Str16(<<"2", "A", "3", "7">>),            \* the same UUID, upper case
      Uuid2a37,                                 \* a UUID object
      Str16(<<"2", "a", "3", "9">>),            \* in no catalog
      String(<<"u", "r", "n", ":", "u", "u", "i", "d", ":">>
             \o Str16(<<"2", "a", "3", "7">>).chars),    \* a URN
      String(<<"2", "a", "3", "7">>) }          \* badly formed

\* The characteristics written and subscribed to.
SubscribedUuidInputs ==
    { Str16(<<"2", "a", "3", "7">>),
      Uuid2a37,
      String(<<"2", "a", "3", "7">>) }          \* badly formed

SrvcUuidInputs ==
    { None,
      Str16(<<"1", "8", "0", "d">>),
      Uuid180d,
      String(<<"{", "1", "8", "0", "d", "}">>) }   \* badly formed

----------------------------------------------------------------------------
(* The service catalog: what discover() returns.  A dict is the sequence   *)
(* of its values in iteration order.                                       *)

Characteristic(uuid, handle) ==
    [type |-> "Characteristic", uuid |-> uuid, handle |-> handle]

Service(uuid, characteristics) ==
    [type |-> "Service", uuid |-> uuid, characteristics |-> characteristics]

HeartRate == Service(Uuid180d, << Characteristic(Uuid2a38, 12),
                                  Characteristic(Uuid2a37, 10) >>)
Battery == Service(Uuid180f, << Characteristic(Uuid2a37, 20) >>)

Catalogs == { <<>>,
              << HeartRate >>,
              << Battery, HeartRate >> }

\* char_obj == char_uuid and srvc_uuid == srvc_obj: an object of the
\* catalog equals a UUID when its uuid is that UUID.
ObjEqUuid(obj, uuid) == obj.uuid = uuid

\* The first characteristic of the sequence that equals char_uuid (the
\* inner loop of __find_char), or None.
RECURSIVE FindInService(_, _)
FindInService(characteristics, char_uuid) ==
    IF characteristics = <<>> THEN None
    ELSE IF ObjEqUuid(Head(characteristics), char_uuid)
         THEN Head(characteristics)
         ELSE FindInService(Tail(characteristics), char_uuid)

\* A search that does not restrict the services to srvc_uuid.
RECURSIVE FindCharAnyService(_, _, _)
FindCharAnyService(srvcs, char_uuid, srvc_uuid) ==
    IF srvcs = <<>> THEN None
    ELSE LET char_obj == FindInService(Head(srvcs).characteristics, char_uuid)
         IN  IF char_obj # None THEN char_obj
             ELSE FindCharAnyService(Tail(srvcs), char_uuid, srvc_uuid)

\* __find_char: the services in iteration order, each one skipped unless
\* srvc_uuid is None or equals it; the first matching characteristic wins.
RECURSIVE FindChar(_, _, _)
FindChar(srvcs, char_uuid, srvc_uuid) ==
    IF srvcs = <<>> THEN None
    ELSE LET srvc_obj == Head(srvcs)
             char_obj == IF srvc_uuid = None \/ ObjEqUuid(srvc_obj, srvc_uuid)
                         THEN FindInService(srvc_obj.characteristics, char_uuid)
                         ELSE None
         IN  IF char_obj # None THEN char_obj
             ELSE FindChar(Tail(srvcs), char_uuid, srvc_uuid)

----------------------------------------------------------------------------
(* Dictionaries, byte arrays, callbacks and payloads *)

EmptyDict == [k \in {} |-> None]
DictSet(d, k, v) == [x \in DOMAIN d \cup {k} |-> IF x = k THEN v ELSE d[x]]
DictDel(d, k) == [x \in DOMAIN d \ {k} |-> d[x]]
DictGet(d, k, default) == IF k \in DOMAIN d THEN d[k] ELSE default

ByteArray(bytes) == [type |-> "bytearray", bytes |-> bytes]

\* bytearray([0x2 if indication else 0x1, 0x0])
SubscribeProperties(indication) == ByteArray(<<IF indication THEN 2 ELSE 1, 0>>)
\* bytearray([0x0, 0x0])
UnsubscribeProperties == ByteArray(<<0, 0>>)

\* A configuration handle that is the value handle itself.
ConfigHandleIsValueHandle(value_handle) == value_handle

\* characteristic_config_handle = value_handle + 1
ConfigHandle(value_handle) == value_handle + 1

\* The configuration descriptors of the device, whose value the history
\* follows.
ConfigHandles == {11, 13, 21}

Function(name) == [type |-> "function", name |-> name]
Callbacks == {Function("cbA"), Function("cbB")}
CallbackInputs == {None} \cup Callbacks

Payloads == {ByteArray(<<7>>)}
NotifiedHandles == {10, 20}
WrittenValues == {ByteArray(<<0, 255>>)}

----------------------------------------------------------------------------
(* The state *)

VARIABLES
    services,      \* self._services: the catalog snapshot
    callbacks,     \* self._callbacks: value handle -> set of callbacks
    subscribed,    \* self._subscribed_handlers: value handle -> properties
    lock,          \* self._lock: the thread that holds it, or None
    pc,            \* per thread: the statement it is at
    frame,         \* per thread: the arguments and locals of its call
    result,        \* per thread: how its call ended (at pc = "done")
    hist,          \* per thread, history: what its call has done so far
    wire,          \* history: config handle -> the last value written to it
    ncalls,        \* history: the number of calls made so far
    prev,          \* history: the call that completed last
    run            \* history: the run of identical subscribes, or NoRun

vars == <<services, callbacks, subscribed, lock, pc, frame, result, hist,
          wire, ncalls, ncalls, prev, run>>

Thread(name) == [type |-> "Thread", name |-> name]

IdleFrame == [op |-> "idle", args |-> None, char_uuid |-> None,
              srvc_uuid |-> None, characteristic |-> None, todo |-> {}]

\* The session as a call finds it.
Snapshot == [services |-> services, callbacks |-> callbacks,
             subscribed |-> subscribed]

\* What a call has done so far: its calls of discover and the catalog the
\* last one returned, its writes, its invocations of callbacks, and the
\* session as it found it.
NoHist == [ndisc |-> 0, discovered |-> None, wrote |-> <<>>,
           invoked |-> <<>>, pre |-> None]

NoRun == [type |-> "None"]

\* BLEDevice.__init__
Init ==
    /\ services = <<>>
    /\ callbacks = EmptyDict
    /\ subscribed = EmptyDict
    /\ lock = None
    /\ pc = [t \in Threads |-> "idle"]
    /\ frame = [t \in Threads |-> IdleFrame]
    /\ result = [t \in Threads |-> None]
    /\ hist = [t \in Threads |-> NoHist]
    /\ wire = EmptyDict
    /\ ncalls = 0
    /\ prev = None
    /\ run = NoRun

\* A lock that the thread holding it may take again (an RLock).
AcquireAgain(t) == lock \in {None, Thread(t)} /\ lock' = Thread(t)

\* An exit of the with statement that leaves the lock locked.
ReleaseForgotten(t) == lock' = lock

\* threading.Lock: unlocked (None), or locked, with the thread that locked it
Acquire(t) == lock = None /\ lock' = Thread(t)
Release(t) == lock' = None

Return(value) == [kind |-> "return", value |-> value]
Raise(exc) == [kind |-> "raise", exc |-> exc]

\* A write the transport was asked for, as the history keeps it.
WriteRecord(handle, value, wait_for_response, ok) ==
    [handle |-> handle, value |-> value,
     wait_for_response |-> wait_for_response, ok |-> ok]

\* The value handle the call of t resolved.
ValueHandle(t) == frame[t].characteristic.handle

----------------------------------------------------------------------------
(* Calls: a thread enters a method with its arguments.  Every method but   *)
(* receive_notification starts in get_handle.                              *)

\* The call of t ends: it returns or raises.
Done(t, outcome) ==
    /\ pc' = [pc EXCEPT ![t] = "done"]
    /\ result' = [result EXCEPT ![t] = outcome]

\* get_handle, lines 210-215: the arguments are normalised, which raises
\* ValueError for a badly formed string; the first search comes next.
GetHandle(t, op, args, uuid, srvc, in) ==
    /\ pc[t] = "idle"
    /\ ncalls < in.calls
    /\ ncalls' = ncalls + 1
    /\ hist' = [hist EXCEPT ![t] = [NoHist EXCEPT !.pre = Snapshot]]
    /\ \E char_uuid \in {NormalizeUUID(uuid)},
          srvc_uuid \in {IF srvc # None THEN NormalizeUUID(srvc) ELSE None} :
           IF char_uuid.type = "ValueError" \/ srvc_uuid.type = "ValueError"
           THEN /\ frame' = [frame EXCEPT ![t] =
                                [IdleFrame EXCEPT !.op = op, !.args = args]]
                /\ Done(t, Raise("ValueError"))
           ELSE /\ frame' = [frame EXCEPT ![t] =
                                [IdleFrame EXCEPT !.op = op, !.args = args,
                                    !.char_uuid = char_uuid,
                                    !.srvc_uuid = srvc_uuid]]
                /\ pc' = [pc EXCEPT ![t] = "find"]
                /\ UNCHANGED result
    /\ UNCHANGED <<services, callbacks, subscribed, lock, wire, prev, run>>

\* Lines 217-219: the catalog is searched a first time; a miss goes on to
\* discover.
GetHandleFind(t) ==
    /\ pc[t] = "find"
    /\ LET characteristic == FindChar(services, frame[t].char_uuid,
                                      frame[t].srvc_uuid)
       IN  /\ frame' = [frame EXCEPT ![t].characteristic = characteristic]
           /\ pc' = [pc EXCEPT ![t] = IF characteristic = None THEN "discover"
                                      ELSE "find_again"]
    /\ UNCHANGED <<services, callbacks, subscribed, lock, result, hist, wire,
                   ncalls, prev, run>>

\* get_handle(char_uuid, srvc_uuid)
CallGetHandle(t, in) ==
    \E char_uuid \in in.char_uuids, srvc_uuid \in in.srvc_uuids :
        GetHandle(t, "get_handle", None, char_uuid, srvc_uuid, in)

\* char_write(uuid, value, srvc_uuid, wait_for_response): line 92 calls
\* get_handle(uuid, srvc_uuid) first.
CallCharWrite(t, in) ==
    \E uuid \in in.uuids, value \in in.values,
       srvc_uuid \in in.srvc_uuids, wait_for_response \in in.waits :
        GetHandle(t, "char_write",
                  [value |-> value, wait_for_response |-> wait_for_response],
                  uuid, srvc_uuid, in)

\* subscribe(uuid, srvc_uuid, callback, indication): lines 145-147 call
\* _notification_handles(uuid, srvc_uuid), which calls get_handle.
CallSubscribe(t, in) ==
    \E uuid \in in.uuids, srvc_uuid \in in.srvc_uuids,
       callback \in in.callbacks, indication \in in.indications :
        GetHandle(t, "subscribe",
                  [callback |-> callback, indication |-> indication],
                  uuid, srvc_uuid, in)

\* unsubscribe(uuid): lines 173-175 call _notification_handles(uuid), whose
\* srvc_uuid is then its default, None.
CallUnsubscribe(t, in) ==
    \E uuid \in in.uuids :
        GetHandle(t, "unsubscribe", None, uuid, None, in)

\* receive_notification(handle, value), up to the with statement
CallReceiveNotification(t, in) ==
    \E handle \in in.handles, value \in in.payloads :
        /\ pc[t] = "idle"
        /\ ncalls < in.calls
        /\ ncalls' = ncalls + 1
        /\ pc' = [pc EXCEPT ![t] = "rn_lock"]
        /\ frame' = [frame EXCEPT ![t] =
                        [IdleFrame EXCEPT !.op = "receive_notification",
                            !.args = [handle |-> handle, value |-> value]]]
        /\ hist' = [hist EXCEPT ![t] = [NoHist EXCEPT !.pre = Snapshot]]
        /\ UNCHANGED <<services, callbacks, subscribed, lock, result, wire,
                       prev, run>>

----------------------------------------------------------------------------
(* get_handle, from the refresh on *)

\* A refresh that calls discover and does not assign its result.
DiscoverUnassigned(t, in) ==
    /\ pc[t] = "discover"
    /\ \E catalog \in in.catalogs :
          hist' = [hist EXCEPT ![t].ndisc = @ + 1,
                               ![t].discovered = [services |-> catalog]]
    /\ pc' = [pc EXCEPT ![t] = "find_again"]
    /\ UNCHANGED <<services, callbacks, subscribed, lock, frame, result,
                   wire, ncalls, prev, run>>

\* Line 222: self._services = self.discover(), a round trip to the device
\* that returns a catalog.
Discover(t, in) ==
    /\ pc[t] = "discover"
    /\ \E catalog \in in.catalogs :
          /\ services' = catalog
          /\ hist' = [hist EXCEPT ![t].ndisc = @ + 1,
                                  ![t].discovered = [services |-> catalog]]
    /\ pc' = [pc EXCEPT ![t] = "find_again"]
    /\ UNCHANGED <<callbacks, subscribed, lock, frame, result, wire, ncalls,
                   prev, run>>

\* Line 222, when the transport fails: discover raises, and the catalog is
\* not assigned.
DiscoverFails(t) ==
    /\ pc[t] = "discover"
    /\ hist' = [hist EXCEPT ![t].ndisc = @ + 1]
    /\ Done(t, Raise("TransportError"))
    /\ UNCHANGED <<services, callbacks, subscribed, lock, frame, wire, ncalls,
                   prev, run>>

\* Where get_handle returns to: the caller of the public method, or the
\* statement after the call in char_write, subscribe and unsubscribe.
AfterGetHandle(op) ==
    CASE op = "get_handle" -> "done"
      [] op = "char_write" -> "cw_write"
      [] op = "subscribe" -> "sub_lock"
      [] op = "unsubscribe" -> "unsub_lock"

\* A second search that goes back to discover once more when it misses.
GetHandleFindAgainRetry(t) ==
    /\ pc[t] = "find_again"
    /\ LET characteristic == FindChar(services, frame[t].char_uuid,
                                      frame[t].srvc_uuid)
       IN  /\ frame' = [frame EXCEPT ![t].characteristic = characteristic]
           /\ IF characteristic = None /\ hist[t].ndisc = 1
              THEN pc' = [pc EXCEPT ![t] = "discover"] /\ UNCHANGED result
              ELSE IF characteristic = None
              THEN Done(t, Raise("BLEError"))
              ELSE IF frame[t].op = "get_handle"
                   THEN Done(t, Return(characteristic.handle))
                   ELSE /\ pc' = [pc EXCEPT ![t] = AfterGetHandle(frame[t].op)]
                        /\ UNCHANGED result
    /\ UNCHANGED <<services, callbacks, subscribed, lock, hist, wire, ncalls,
                   prev, run>>

\* Lines 224-235: the catalog is searched again, whether or not it was
\* refreshed; no match raises BLEError, a match returns its handle.
GetHandleFindAgain(t) ==
    /\ pc[t] = "find_again"
    /\ LET characteristic == FindChar(services, frame[t].char_uuid,
                                      frame[t].srvc_uuid)
       IN  /\ frame' = [frame EXCEPT ![t].characteristic = characteristic]
           /\ IF characteristic = None
              THEN Done(t, Raise("BLEError"))
              ELSE IF frame[t].op = "get_handle"
                   THEN Done(t, Return(characteristic.handle))
                   ELSE /\ pc' = [pc EXCEPT ![t] = AfterGetHandle(frame[t].op)]
                        /\ UNCHANGED result
    /\ UNCHANGED <<services, callbacks, subscribed, lock, hist, wire, ncalls,
                   prev, run>>

----------------------------------------------------------------------------
(* char_write_handle: the transport's write, which the backend implements. *)
(* It returns, or it raises the transport's error.                         *)

CharWriteHandle(t, handle, value, wait_for_response, ok) ==
    /\ hist' = [hist EXCEPT ![t].wrote =
                  Append(@, WriteRecord(handle, value, wait_for_response, ok))]
    /\ wire' = IF ok /\ handle \in ConfigHandles
               THEN DictSet(wire, handle, value) ELSE wire

\* Lines 92-93 of char_write: the write to the resolved handle.
CharWrite(t) ==
    /\ pc[t] = "cw_write"
    /\ \E ok \in BOOLEAN :
          /\ CharWriteHandle(t, ValueHandle(t), frame[t].args.value,
                             frame[t].args.wait_for_response, ok)
          /\ Done(t, IF ok THEN Return(None) ELSE Raise("TransportError"))
    /\ UNCHANGED <<services, callbacks, subscribed, lock, frame, ncalls, prev,
                   run>>

----------------------------------------------------------------------------
(* subscribe *)

\* A subscribe that goes on without the lock.
SubscribeLockNotTaken(t) ==
    /\ pc[t] = "sub_lock"
    /\ pc' = [pc EXCEPT ![t] = "sub_register"]
    /\ UNCHANGED <<services, callbacks, subscribed, lock, frame, result, hist,
                   wire, ncalls, prev, run>>

\* Line 154: with self._lock
SubscribeLock(t) ==
    /\ pc[t] = "sub_lock"
    /\ Acquire(t)
    /\ pc' = [pc EXCEPT ![t] = "sub_register"]
    /\ UNCHANGED <<services, callbacks, subscribed, frame, result, hist,
                   wire, ncalls, prev, run>>

\* self._callbacks[value_handle].add(callback), on a defaultdict(set)
AddCallback(cbs, value_handle, callback) ==
    DictSet(cbs, value_handle, DictGet(cbs, value_handle, {}) \cup {callback})

\* A comparison that always tells subscribe to write.
NeedsWriteAlways(handlers, value_handle, properties) == TRUE

\* self._subscribed_handlers.get(value_handle, None) != properties
NeedsWrite(handlers, value_handle, properties) ==
    DictGet(handlers, value_handle, None) # properties

\* Lines 155-158 and 166-167: the callback is registered, and the recorded
\* properties decide whether to write.
SubscribeRegister(t) ==
    /\ pc[t] = "sub_register"
    /\ callbacks' = IF frame[t].args.callback # None
                    THEN AddCallback(callbacks, ValueHandle(t),
                                     frame[t].args.callback)
                    ELSE callbacks
    /\ IF NeedsWrite(subscribed, ValueHandle(t),
                     SubscribeProperties(frame[t].args.indication))
       THEN /\ pc' = [pc EXCEPT ![t] = "sub_write"]
            /\ UNCHANGED <<lock, result>>
       ELSE /\ Release(t)
            /\ Done(t, Return(None))
    /\ UNCHANGED <<services, subscribed, frame, hist, wire, ncalls, prev, run>>

\* Lines 159-163: the configuration write; when it raises, the with
\* statement releases the lock and subscribe raises.
SubscribeWrite(t) ==
    /\ pc[t] = "sub_write"
    /\ \E ok \in BOOLEAN :
          /\ CharWriteHandle(t, ConfigHandle(ValueHandle(t)),
                             SubscribeProperties(frame[t].args.indication),
                             FALSE, ok)
          /\ IF ok
             THEN /\ pc' = [pc EXCEPT ![t] = "sub_record"]
                  /\ UNCHANGED <<lock, result>>
             ELSE /\ Release(t)
                  /\ Done(t, Raise("TransportError"))
    /\ UNCHANGED <<services, callbacks, subscribed, frame, ncalls, prev, run>>

\* Line 165: the written properties are recorded; the lock is released.
SubscribeRecord(t) ==
    /\ pc[t] = "sub_record"
    /\ subscribed' = DictSet(subscribed, ValueHandle(t),
                             SubscribeProperties(frame[t].args.indication))
    /\ Release(t)
    /\ Done(t, Return(None))
    /\ UNCHANGED <<services, callbacks, frame, hist, wire, ncalls, prev, run>>

----------------------------------------------------------------------------
(* unsubscribe *)

\* Line 179: with self._lock
UnsubscribeLock(t) ==
    /\ pc[t] = "unsub_lock"
    /\ Acquire(t)
    /\ pc' = [pc EXCEPT ![t] = "unsub_remove"]
    /\ UNCHANGED <<services, callbacks, subscribed, frame, result, hist,
                   wire, ncalls, prev, run>>

\* An unsubscribe that writes whether or not the handle had a record.
UnsubscribeRemoveAlwaysWrites(t) ==
    /\ pc[t] = "unsub_remove"
    /\ callbacks' = IF ValueHandle(t) \in DOMAIN callbacks
                    THEN DictDel(callbacks, ValueHandle(t)) ELSE callbacks
    /\ subscribed' = IF ValueHandle(t) \in DOMAIN subscribed
                     THEN DictDel(subscribed, ValueHandle(t)) ELSE subscribed
    /\ pc' = [pc EXCEPT ![t] = "unsub_write"]
    /\ UNCHANGED <<lock, result>>
    /\ UNCHANGED <<services, frame, hist, wire, ncalls, prev, run>>

\* Lines 180-183 and 190-191: the callbacks of the handle and its record
\* are deleted; only a handle that had a record is written to.
UnsubscribeRemove(t) ==
    /\ pc[t] = "unsub_remove"
    /\ callbacks' = IF ValueHandle(t) \in DOMAIN callbacks
                    THEN DictDel(callbacks, ValueHandle(t)) ELSE callbacks
    /\ IF ValueHandle(t) \in DOMAIN subscribed
       THEN /\ subscribed' = DictDel(subscribed, ValueHandle(t))
            /\ pc' = [pc EXCEPT ![t] = "unsub_write"]
            /\ UNCHANGED <<lock, result>>
       ELSE /\ UNCHANGED subscribed
            /\ Release(t)
            /\ Done(t, Return(None))
    /\ UNCHANGED <<services, frame, hist, wire, ncalls, prev, run>>

\* A write of zero that leaves the lock locked when it raises.
UnsubscribeWriteKeepsLock(t) ==
    /\ pc[t] = "unsub_write"
    /\ \E ok \in BOOLEAN :
          /\ CharWriteHandle(t, ConfigHandle(ValueHandle(t)),
                             UnsubscribeProperties, FALSE, ok)
          /\ Done(t, IF ok THEN Return(None) ELSE Raise("TransportError"))
          /\ IF ok THEN Release(t) ELSE UNCHANGED lock
    /\ UNCHANGED <<services, callbacks, subscribed, frame, ncalls, prev, run>>

\* Lines 184-189: the configuration write of zero; the lock is released
\* whether it returns or raises.
UnsubscribeWrite(t) ==
    /\ pc[t] = "unsub_write"
    /\ \E ok \in BOOLEAN :
          /\ CharWriteHandle(t, ConfigHandle(ValueHandle(t)),
                             UnsubscribeProperties, FALSE, ok)
          /\ Done(t, IF ok THEN Return(None) ELSE Raise("TransportError"))
    /\ Release(t)
    /\ UNCHANGED <<services, callbacks, subscribed, frame, ncalls, prev, run>>

----------------------------------------------------------------------------
(* receive_notification *)

\* Line 245: with self._lock
ReceiveLock(t) ==
    /\ pc[t] = "rn_lock"
    /\ Acquire(t)
    /\ pc' = [pc EXCEPT ![t] = "rn_lookup"]
    /\ UNCHANGED <<services, callbacks, subscribed, frame, result, hist,
                   wire, ncalls, prev, run>>

\* A lookup that takes the callbacks of every handle.
CallbacksForAnyHandle(cbs, handle) == UNION {cbs[h] : h \in DOMAIN cbs}

\* if handle in self._callbacks: ... in self._callbacks[handle]
CallbacksFor(cbs, handle) == IF handle \in DOMAIN cbs THEN cbs[handle] ELSE {}

\* A lookup that indexes the defaultdict without testing for the handle,
\* which stores an empty set for a handle that has none.
ReceiveLookupIndexes(t) ==
    /\ pc[t] = "rn_lookup"
    /\ callbacks' = DictSet(callbacks, frame[t].args.handle,
                            CallbacksFor(callbacks, frame[t].args.handle))
    /\ LET todo == CallbacksFor(callbacks, frame[t].args.handle)
       IN  IF todo = {}
           THEN /\ Release(t)
                /\ Done(t, Return(None))
                /\ UNCHANGED frame
           ELSE /\ frame' = [frame EXCEPT ![t].todo = todo]
                /\ pc' = [pc EXCEPT ![t] = "rn_invoke"]
                /\ UNCHANGED <<lock, result>>
    /\ UNCHANGED <<services, subscribed, hist, wire, ncalls, prev, run>>

\* Lines 246-247: the callbacks the loop will go through, none when the
\* handle has no entry.
ReceiveLookup(t) ==
    /\ pc[t] = "rn_lookup"
    /\ LET todo == CallbacksFor(callbacks, frame[t].args.handle)
       IN  IF todo = {}
           THEN /\ Release(t)
                /\ Done(t, Return(None))
                /\ UNCHANGED frame
           ELSE /\ frame' = [frame EXCEPT ![t].todo = todo]
                /\ pc' = [pc EXCEPT ![t] = "rn_invoke"]
                /\ UNCHANGED <<lock, result>>
    /\ UNCHANGED <<services, callbacks, subscribed, hist, wire, ncalls, prev,
                   run>>

\* A dispatch that does not release the lock when a callback raises.
ReceiveInvokeKeepsLock(t) ==
    /\ pc[t] = "rn_invoke"
    /\ \E callback \in frame[t].todo, returns \in BOOLEAN :
          /\ hist' = [hist EXCEPT ![t].invoked =
                        Append(@, [callback |-> callback,
                                   handle |-> frame[t].args.handle,
                                   value |-> frame[t].args.value,
                                   returns |-> returns])]
          /\ IF ~returns
             THEN /\ Done(t, Raise("CallbackError"))
                  /\ UNCHANGED <<lock, frame>>
             ELSE IF frame[t].todo = {callback}
             THEN /\ Release(t)
                  /\ Done(t, Return(None))
                  /\ UNCHANGED frame
             ELSE /\ frame' = [frame EXCEPT ![t].todo = @ \ {callback}]
                  /\ UNCHANGED <<lock, pc, result>>
    /\ UNCHANGED <<services, callbacks, subscribed, wire, ncalls, prev, run>>

\* Line 248: callback(handle, value), for any callback the iteration of
\* the set has not reached yet.  The callback returns, and the loop goes on
\* or ends; or it raises, which ends receive_notification with its
\* exception, the lock released by the with statement.
ReceiveInvoke(t) ==
    /\ pc[t] = "rn_invoke"
    /\ \E callback \in frame[t].todo, returns \in BOOLEAN :
          /\ hist' = [hist EXCEPT ![t].invoked =
                        Append(@, [callback |-> callback,
                                   handle |-> frame[t].args.handle,
                                   value |-> frame[t].args.value,
                                   returns |-> returns])]
          /\ IF ~returns
             THEN /\ Release(t)
                  /\ Done(t, Raise("CallbackError"))
                  /\ UNCHANGED frame
             ELSE IF frame[t].todo = {callback}
             THEN /\ Release(t)
                  /\ Done(t, Return(None))
                  /\ UNCHANGED frame
             ELSE /\ frame' = [frame EXCEPT ![t].todo = @ \ {callback}]
                  /\ UNCHANGED <<lock, pc, result>>
    /\ UNCHANGED <<services, callbacks, subscribed, wire, ncalls, prev, run>>

----------------------------------------------------------------------------
(* The end of a call, and the histories kept of it *)

Min(a, b) == IF a < b THEN a ELSE b

\* What identifies a subscribe call as identical to another.
SubscribeKey(f) == [value_handle |-> f.characteristic.handle,
                    uuid |-> f.char_uuid, srvc_uuid |-> f.srvc_uuid,
                    indication |-> f.args.indication]

\* The run after the call of t.  Subscribe calls that resolve one value
\* handle and are identical in their arguments, with no unsubscribe and
\* no failed write among them, make a run: calls counts them and writes
\* the configuration writes they issued, and fresh tells whether the run
\* started with the handle not recording the properties asked for.
RunAfter(t) ==
    LET f == frame[t]
        key == SubscribeKey(f)
        n == Len(hist[t].wrote)
    IN  IF f.op \notin {"subscribe", "unsubscribe"} \/ f.characteristic = None
        THEN run
        ELSE IF f.op = "unsubscribe" \/ result[t].kind = "raise"
        THEN NoRun
        ELSE IF run # NoRun /\ run.key = key
        THEN [run EXCEPT !.calls = Min(@ + 1, MaxRun),
                         !.writes = Min(@ + n, MaxRun)]
        ELSE [type |-> "Run", key |-> key, calls |-> 1, writes |-> n,
              fresh |-> NeedsWrite(hist[t].pre.subscribed,
                                   f.characteristic.handle,
                                   SubscribeProperties(f.args.indication))]

\* What the history keeps of a completed call: of a call that resolves a
\* characteristic, what it asked for, what it resolved and how it ended.
Summary(t) ==
    IF frame[t].op \in {"get_handle", "subscribe", "unsubscribe"}
    THEN [op |-> frame[t].op, char_uuid |-> frame[t].char_uuid,
          srvc_uuid |-> frame[t].srvc_uuid,
          characteristic |-> frame[t].characteristic,
          kind |-> result[t].kind, ndisc |-> hist[t].ndisc]
    ELSE [op |-> frame[t].op, char_uuid |-> None, srvc_uuid |-> None,
          characteristic |-> None, kind |-> result[t].kind, ndisc |-> 0]

\* The caller has the outcome of its call and is free to call again.
Finish(t) ==
    /\ pc[t] = "done"
    /\ prev' = Summary(t)
    /\ run' = RunAfter(t)
    /\ pc' = [pc EXCEPT ![t] = "idle"]
    /\ frame' = [frame EXCEPT ![t] = IdleFrame]
    /\ result' = [result EXCEPT ![t] = None]
    /\ hist' = [hist EXCEPT ![t] = NoHist]
    /\ UNCHANGED <<services, callbacks, subscribed, lock, wire, ncalls>>

----------------------------------------------------------------------------
(* The specifications *)

Step(t, in) ==
    \/ CallGetHandle(t, in)
    \/ CallCharWrite(t, in)
    \/ CallSubscribe(t, in)
    \/ CallUnsubscribe(t, in)
    \/ CallReceiveNotification(t, in)
    \/ GetHandleFind(t)
    \/ Discover(t, in)
    \/ DiscoverFails(t)
    \/ GetHandleFindAgain(t)
    \/ CharWrite(t)
    \/ SubscribeLock(t)
    \/ SubscribeRegister(t)
    \/ SubscribeWrite(t)
    \/ SubscribeRecord(t)
    \/ UnsubscribeLock(t)
    \/ UnsubscribeRemove(t)
    \/ UnsubscribeWrite(t)
    \/ ReceiveLock(t)
    \/ ReceiveLookup(t)
    \/ ReceiveInvoke(t)
    \/ Finish(t)

\* The calls of a behaviour in which threads run concurrently: any thread
\* takes the next step.
ConcurrentInputs ==
    [char_uuids |-> {Str16(<<"2", "a", "3", "7">>),
                     Str16(<<"2", "a", "3", "9">>)},
     uuids |-> {Str16(<<"2", "a", "3", "7">>)},
     srvc_uuids |-> {None},
     callbacks |-> {None, Function("cbA")},
     indications |-> {FALSE},
     handles |-> {10},
     payloads |-> {ByteArray(<<7>>)},
     values |-> WrittenValues,
     waits |-> {FALSE},
     catalogs |-> {<<>>, << HeartRate >>},
     calls |-> MaxConcurrentCalls]

Next == \E t \in Threads : Step(t, ConcurrentInputs)

Spec == Init /\ [][Next]_vars

\* No other thread touches the session during a call.
Alone(t) == \A u \in Threads \ {t} : pc[u] = "idle"

\* The calls of a behaviour in which calls follow one another: a thread
\* steps only while the others are idle.
SequentialInputs ==
    [char_uuids |-> CharUuidInputs,
     uuids |-> SubscribedUuidInputs,
     srvc_uuids |-> SrvcUuidInputs,
     callbacks |-> CallbackInputs,
     indications |-> BOOLEAN,
     handles |-> NotifiedHandles,
     payloads |-> Payloads,
     values |-> WrittenValues,
     waits |-> {FALSE},
     catalogs |-> Catalogs,
     calls |-> MaxCalls]

SeqNext == Alone("t1") /\ Step("t1", SequentialInputs)

SeqSpec == Init /\ [][SeqNext]_vars

\* The calls of a behaviour in which the threads call subscribe, and
\* nothing else, concurrently.
SubscribeInputs ==
    [char_uuids |-> {},
     uuids |-> {Str16(<<"2", "a", "3", "7">>)},
     srvc_uuids |-> {None},
     callbacks |-> {None, Function("cbA")},
     indications |-> BOOLEAN,
     handles |-> {},
     payloads |-> {},
     values |-> {},
     waits |-> {},
     catalogs |-> {<< HeartRate >>, << Battery, HeartRate >>},
     calls |-> MaxConcurrentCalls]

SubscribeStep(t, in) ==
    \/ CallSubscribe(t, in)
    \/ GetHandleFind(t)
    \/ Discover(t, in)
    \/ DiscoverFails(t)
    \/ GetHandleFindAgain(t)
    \/ SubscribeLock(t)
    \/ SubscribeRegister(t)
    \/ SubscribeWrite(t)
    \/ SubscribeRecord(t)
    \/ Finish(t)

SubscribeNext == \E t \in Threads : SubscribeStep(t, SubscribeInputs)

SubscribeSpec == Init /\ [][SubscribeNext]_vars

----------------------------------------------------------------------------
(* Callbacks that call back into the session.  Line 248 runs the callback  *)
(* in the dispatching thread, inside the with statement; a callback whose  *)
(* body calls subscribe, unsubscribe or get_handle of the session makes    *)
(* the thread enter that method, the frame of receive_notification being   *)
(* kept below the frame of the inner call.                                 *)

ReentrantCallbacks == {Function("subscribe"), Function("unsubscribe"),
                       Function("get_handle")}

\* The call of t is one that a callback made.
Nested(t) == "outer" \in DOMAIN frame[t].args

\* Line 248, for a callback whose body is self.<name>(uuid): the thread
\* enters the method and, as lines 210-215 have it, normalises the UUID,
\* which raises ValueError for a badly formed string.
ReceiveInvokeReentrant(t, in) ==
    /\ pc[t] = "rn_invoke"
    /\ \E callback \in frame[t].todo \cap ReentrantCallbacks,
          uuid \in in.uuids :
          LET char_uuid == NormalizeUUID(uuid)
              inner == [IdleFrame EXCEPT !.op = callback.name,
                           !.args = [callback |-> None,
                                     indication |-> FALSE,
                                     by |-> callback,
                                     outer |-> frame[t]]]
          IN  IF char_uuid.type = "ValueError"
              THEN /\ frame' = [frame EXCEPT ![t] = inner]
                   /\ Done(t, Raise("ValueError"))
              ELSE /\ frame' = [frame EXCEPT ![t] =
                                   [inner EXCEPT !.char_uuid = char_uuid]]
                   /\ pc' = [pc EXCEPT ![t] = "find"]
                   /\ UNCHANGED result
    /\ UNCHANGED <<services, callbacks, subscribed, lock, hist, wire, ncalls,
                   prev, run>>

\* The inner call has ended and with it the callback: an exception goes up
\* through receive_notification, whose with statement releases the lock;
\* after a return the loop of line 247 goes on or ends.
CallbackReturns(t) ==
    /\ pc[t] = "done"
    /\ Nested(t)
    /\ LET outer == frame[t].args.outer
           callback == frame[t].args.by
           returns == result[t].kind = "return"
           todo == outer.todo \ {callback}
       IN  /\ hist' = [hist EXCEPT ![t].invoked =
                         Append(@, [callback |-> callback,
                                    handle |-> outer.args.handle,
                                    value |-> outer.args.value,
                                    returns |-> returns])]
           /\ IF ~returns
              THEN /\ frame' = [frame EXCEPT ![t] = outer]
                   /\ Release(t)
                   /\ UNCHANGED <<pc, result>>
              ELSE IF todo = {}
              THEN /\ frame' = [frame EXCEPT ![t] = outer]
                   /\ Release(t)
                   /\ Done(t, Return(None))
              ELSE /\ frame' = [frame EXCEPT ![t] =
                                   [outer EXCEPT !.todo = todo]]
                   /\ pc' = [pc EXCEPT ![t] = "rn_invoke"]
                   /\ result' = [result EXCEPT ![t] = None]
                   /\ UNCHANGED lock
    /\ UNCHANGED <<services, callbacks, subscribed, wire, ncalls, prev, run>>

\* The caller of a method that no callback called has its outcome.
FinishTop(t) == ~Nested(t) /\ Finish(t)

ReentrantStep(t, in) ==
    \/ CallSubscribe(t, in)
    \/ CallUnsubscribe(t, in)
    \/ CallReceiveNotification(t, in)
    \/ GetHandleFind(t)
    \/ Discover(t, in)
    \/ DiscoverFails(t)
    \/ GetHandleFindAgain(t)
    \/ SubscribeLock(t)
    \/ SubscribeRegister(t)
    \/ SubscribeWrite(t)
    \/ SubscribeRecord(t)
    \/ UnsubscribeLock(t)
    \/ UnsubscribeRemove(t)
    \/ UnsubscribeWrite(t)
    \/ ReceiveLock(t)
    \/ ReceiveLookup(t)
    \/ ReceiveInvokeReentrant(t, in)
    \/ CallbackReturns(t)
    \/ FinishTop(t)

\* The calls of a behaviour in which the callbacks call back.
ReentrantInputs ==
    [char_uuids |-> {},
     uuids |-> {Str16(<<"2", "a", "3", "7">>),
                String(<<"2", "a", "3", "7">>)},
     srvc_uuids |-> {None},
     callbacks |-> ReentrantCallbacks,
     indications |-> {FALSE},
     handles |-> {10},
     payloads |-> {ByteArray(<<7>>)},
     values |-> {},
     waits |-> {},
     catalogs |-> {<<>>, << HeartRate >>},
     calls |-> MaxConcurrentCalls]

ReentrantNext == \E t \in Threads : ReentrantStep(t, ReentrantInputs)

ReentrantSpec == Init /\ [][ReentrantNext]_vars

\* The steps of a call that the thread takes by itself: it goes on running
\* until the call ends.
Running(t, in) ==
    \/ GetHandleFind(t)
    \/ Discover(t, in)
    \/ DiscoverFails(t)
    \/ GetHandleFindAgain(t)
    \/ CharWrite(t)
    \/ SubscribeRegister(t)
    \/ SubscribeWrite(t)
    \/ SubscribeRecord(t)
    \/ UnsubscribeRemove(t)
    \/ UnsubscribeWrite(t)
    \/ ReceiveLookup(t)
    \/ ReceiveInvoke(t)

\* The steps in which a thread takes the lock.
Locking(t) == SubscribeLock(t) \/ UnsubscribeLock(t) \/ ReceiveLock(t)

\* The calls of a behaviour under fair scheduling.
FairInputs ==
    [char_uuids |-> {Str16(<<"2", "a", "3", "9">>)},
     uuids |-> {Str16(<<"2", "a", "3", "7">>)},
     srvc_uuids |-> {None},
     callbacks |-> {Function("cbA")},
     indications |-> {FALSE},
     handles |-> {10},
     payloads |-> {ByteArray(<<7>>)},
     values |-> WrittenValues,
     waits |-> {FALSE},
     catalogs |-> {<< HeartRate >>},
     calls |-> MaxConcurrentCalls]

FairNext == \E t \in Threads : Step(t, FairInputs)

\* Threads run concurrently under a fair scheduler: a thread inside a call
\* that can go on does go on, and a thread that waits for the lock gets it
\* if the lock is free again and again.
FairSpec ==
    /\ Init /\ [][FairNext]_vars
    /\ \A t \in Threads : WF_vars(Running(t, FairInputs))
    /\ \A t \in Threads : SF_vars(Locking(t))

----------------------------------------------------------------------------
(* What the properties speak of *)

\* The characteristics of a catalog that match a pair: those whose uuid is
\* char_uuid, in any service, or in the services whose uuid is srvc_uuid
\* when one is given.
Matching(catalog, char_uuid, srvc_uuid) ==
    { catalog[i].characteristics[j] :
        <<i, j>> \in { <<i, j>> \in (1..Len(catalog)) \X (1..2) :
            /\ j <= Len(catalog[i].characteristics)
            /\ catalog[i].characteristics[j].uuid = char_uuid
            /\ srvc_uuid = None \/ catalog[i].uuid = srvc_uuid } }

MatchingHandles(catalog, char_uuid, srvc_uuid) ==
    { c.handle : c \in Matching(catalog, char_uuid, srvc_uuid) }

\* The call of t has ended, and it was a call of op.
Ended(t, op) == pc[t] = "done" /\ frame[t].op = op

\* A call of get_handle has ended whose arguments were well formed UUIDs.
Resolved(t) == Ended(t, "get_handle") /\ frame[t].char_uuid # None

\* The pair was in the catalog when the call of t began.
KnownBefore(t) ==
    Matching(hist[t].pre.services, frame[t].char_uuid, frame[t].srvc_uuid) # {}

\* discover returned to the call of t a catalog that holds the pair.
KnownAfterRefresh(t) ==
    /\ hist[t].discovered # None
    /\ Matching(hist[t].discovered.services, frame[t].char_uuid,
                frame[t].srvc_uuid) # {}

----------------------------------------------------------------------------
(* The handle resolver, in calls that follow one another *)

\* C1: a get_handle for a pair that the catalog holds returns the handle of
\* a characteristic of the catalog matching the pair, does not call
\* discover, and leaves the catalog as it was.
C1_CacheHit ==
    \A t \in Threads :
        Resolved(t) /\ KnownBefore(t) =>
            /\ result[t].kind = "return"
            /\ result[t].value \in MatchingHandles(hist[t].pre.services,
                                    frame[t].char_uuid, frame[t].srvc_uuid)
            /\ hist[t].ndisc = 0
            /\ services = hist[t].pre.services

\* A hit on a pair scoped by its service, in a catalog where another
\* service comes first and holds the same characteristic UUID.
C1_Witness ==
    \E t \in Threads :
        /\ Resolved(t) /\ KnownBefore(t)
        /\ frame[t].srvc_uuid # None
        /\ Len(services) = 2
        /\ result[t] = Return(10)

\* C2: a get_handle for a pair that the catalog lacks and that the catalog
\* discover returns holds calls discover once, makes that catalog the
\* catalog of the session and returns the handle recorded in it; and the
\* get_handle for the same pair that follows does not call discover.
C2_MissThenHit ==
    \A t \in Threads :
        /\ Resolved(t) /\ ~KnownBefore(t) /\ KnownAfterRefresh(t) =>
              /\ hist[t].ndisc = 1
              /\ services = hist[t].discovered.services
              /\ result[t].kind = "return"
              /\ result[t].value \in
                    MatchingHandles(hist[t].discovered.services,
                                    frame[t].char_uuid, frame[t].srvc_uuid)
        /\ ( /\ Resolved(t)
             /\ prev # None /\ prev.op = "get_handle"
             /\ prev.char_uuid = frame[t].char_uuid
             /\ prev.srvc_uuid = frame[t].srvc_uuid
             /\ prev.kind = "return" /\ prev.ndisc = 1 ) =>
              hist[t].ndisc = 0

\* The second of two get_handle calls for one pair, the first of which
\* refreshed the catalog and found the pair in it.
C2_Witness ==
    \E t \in Threads :
        /\ Resolved(t)
        /\ prev # None /\ prev.op = "get_handle"
        /\ prev.char_uuid = frame[t].char_uuid
        /\ prev.srvc_uuid = frame[t].srvc_uuid
        /\ prev.kind = "return" /\ prev.ndisc = 1
        /\ result[t].kind = "return" /\ hist[t].ndisc = 0

\* C3: a get_handle for a pair that neither the catalog nor the catalog
\* discover returns holds raises the not-found error, having called
\* discover once; and no call calls discover more than once.
C3_NotFound ==
    \A t \in Threads :
        /\ ( /\ Resolved(t) /\ ~KnownBefore(t)
             /\ hist[t].discovered # None /\ ~KnownAfterRefresh(t) ) =>
              /\ result[t] = Raise("BLEError")
              /\ hist[t].ndisc = 1
        /\ hist[t].ndisc <= 1

\* A get_handle that found the pair neither before nor after its refresh,
\* the refreshed catalog not being empty.
C3_Witness ==
    \E t \in Threads :
        /\ Resolved(t) /\ ~KnownBefore(t)
        /\ hist[t].discovered # None /\ hist[t].discovered.services # <<>>
        /\ ~KnownAfterRefresh(t)
        /\ result[t] = Raise("BLEError")

----------------------------------------------------------------------------
(* The subscription manager, in calls that follow one another *)

\* The properties a subscribe asks for, as bytes on the wire.
Wanted(indication) == IF indication THEN ByteArray(<<2, 0>>)
                      ELSE ByteArray(<<1, 0>>)

\* The properties recorded for a value handle, None when it has no record.
Recorded(handlers, value_handle) ==
    IF value_handle \in DOMAIN handlers THEN handlers[value_handle] ELSE None

\* The call of t went on past get_handle: it resolved its characteristic.
Entered(t) == frame[t].characteristic # None

\* C4: subscribe calls that are identical in (uuid, srvc_uuid, indication)
\* and resolve one value handle, with no unsubscribe and no failed write
\* among them, issue one configuration write in all when the first of them
\* found the handle not recording these properties: the first call writes
\* and the later ones do not (and none of them writes when the handle
\* recorded the properties already).
C4_SubscribeIdempotent ==
    run # NoRun => run.writes = (IF run.fresh THEN 1 ELSE 0)

\* Two or more identical subscribe calls completed, and one write was
\* issued.
C4_Witness ==
    run # NoRun /\ run.fresh /\ run.calls >= 2 /\ run.writes = 1

\* C5: every write a subscribe issues goes to value_handle + 1, carries
\* [0x01, 0x00] or, for an indication, [0x02, 0x00], and does not wait for
\* a response; and a subscribe that finds another value recorded for the
\* handle, or none, issues one such write and, the write done, records the
\* value.
C5_SubscribeWrite ==
    \A t \in Threads :
        frame[t].op = "subscribe" /\ Entered(t) =>
            LET value_handle == frame[t].characteristic.handle
                wanted == Wanted(frame[t].args.indication)
                wrote == hist[t].wrote
            IN  /\ \A i \in 1..Len(wrote) :
                      /\ wrote[i].handle = value_handle + 1
                      /\ wrote[i].value = wanted
                      /\ wrote[i].wait_for_response = FALSE
                /\ ( /\ pc[t] = "done"
                     /\ Recorded(hist[t].pre.subscribed, value_handle)
                            # wanted ) =>
                      /\ Len(wrote) = 1
                      /\ result[t].kind = "return" =>
                            /\ wrote[1].ok
                            /\ Recorded(subscribed, value_handle) = wanted

\* A subscribe for indications has ended on a handle that recorded
\* notifications: it wrote [0x02, 0x00] and recorded it.
C5_Witness ==
    \E t \in Threads :
        /\ Ended(t, "subscribe") /\ Entered(t)
        /\ frame[t].args.indication
        /\ Recorded(hist[t].pre.subscribed, frame[t].characteristic.handle)
              = ByteArray(<<1, 0>>)
        /\ Len(hist[t].wrote) = 1
        /\ hist[t].wrote[1].value = ByteArray(<<2, 0>>)
        /\ Recorded(subscribed, frame[t].characteristic.handle)
              = ByteArray(<<2, 0>>)

\* C6: the unsubscribe that follows a successful subscribe on a
\* characteristic issues one write of [0x00, 0x00] to the value handle of
\* that subscribe plus one, and deletes the record and the callbacks of that
\* value handle.
C6_UnsubscribeActive ==
    \A t \in Threads :
        ( /\ Ended(t, "unsubscribe")
          /\ prev # None /\ prev.op = "subscribe" /\ prev.kind = "return"
          /\ prev.char_uuid = frame[t].char_uuid ) =>
            LET value_handle == prev.characteristic.handle
                wrote == hist[t].wrote
            IN  /\ Len(wrote) = 1
                /\ wrote[1].handle = value_handle + 1
                /\ wrote[1].value = ByteArray(<<0, 0>>)
                /\ value_handle \notin DOMAIN subscribed
                /\ value_handle \notin DOMAIN callbacks

\* C7: an unsubscribe that resolves a value handle with no subscription
\* record issues no write, returns, and leaves the subscription table as
\* it was; so the unsubscribe that follows an unsubscribe of the same
\* handle issues no write.
C7_UnsubscribeIdempotent ==
    \A t \in Threads :
        Ended(t, "unsubscribe") /\ Entered(t) =>
            LET value_handle == frame[t].characteristic.handle
            IN  /\ value_handle \notin DOMAIN hist[t].pre.subscribed =>
                      /\ hist[t].wrote = <<>>
                      /\ result[t] = Return(None)
                      /\ subscribed = hist[t].pre.subscribed
                /\ ( /\ prev # None /\ prev.op = "unsubscribe"
                     /\ prev.characteristic # None
                     /\ prev.characteristic.handle = value_handle ) =>
                      hist[t].wrote = <<>>

\* The second of two unsubscribe calls on one handle has ended: it wrote
\* nothing and returned.
C7_Witness ==
    \E t \in Threads :
        /\ Ended(t, "unsubscribe") /\ Entered(t)
        /\ prev # None /\ prev.op = "unsubscribe"
        /\ prev.characteristic # None
        /\ prev.characteristic.handle = frame[t].characteristic.handle
        /\ hist[t].wrote = <<>>
        /\ result[t] = Return(None)

----------------------------------------------------------------------------
(* The notification dispatcher, in calls that follow one another *)

\* The callbacks registered on a handle when the call of t began.
RegisteredBefore(t, handle) ==
    IF handle \in DOMAIN hist[t].pre.callbacks
    THEN hist[t].pre.callbacks[handle] ELSE {}

\* C8: a receive_notification(h, payload) in which every callback returns
\* invokes each callback registered on h once, with (h, payload), a
\* callback registered twice included; and for a handle with no callback
\* it invokes none and returns.
C8_FanOut ==
    \A t \in Threads :
        Ended(t, "receive_notification") =>
            LET handle == frame[t].args.handle
                invoked == hist[t].invoked
            IN  /\ result[t].kind = "return" =>
                      /\ Len(invoked) = Cardinality(RegisteredBefore(t, handle))
                      /\ {invoked[i].callback : i \in 1..Len(invoked)}
                            = RegisteredBefore(t, handle)
                      /\ \A i \in 1..Len(invoked) :
                            /\ invoked[i].handle = handle
                            /\ invoked[i].value = frame[t].args.value
                /\ RegisteredBefore(t, handle) = {} =>
                      result[t] = Return(None) /\ invoked = <<>>

\* A notification was dispatched to the two callbacks of its handle.
C8_Witness ==
    \E t \in Threads :
        /\ Ended(t, "receive_notification")
        /\ result[t].kind = "return"
        /\ Cardinality(RegisteredBefore(t, frame[t].args.handle)) = 2
        /\ Len(hist[t].invoked) = 2

\* C9: receive_notification returns to the transport, whatever the
\* callbacks do.
C9_DispatchNeverRaises ==
    \A t \in Threads :
        Ended(t, "receive_notification") => result[t].kind = "return"

----------------------------------------------------------------------------
(* The session lock, with threads running concurrently *)

\* The attributes of the session that the statement thread t is at reads
\* or writes.
Accesses(t) ==
    CASE pc[t] \in {"find", "discover", "find_again"} -> {"_services"}
      [] pc[t] \in {"sub_register", "unsub_remove"} ->
            {"_callbacks", "_subscribed_handlers"}
      [] pc[t] = "sub_record" -> {"_subscribed_handlers"}
      [] pc[t] \in {"rn_lookup", "rn_invoke"} -> {"_callbacks"}
      \* a callback's call has returned: the loop of line 247 goes on over
      \* the callbacks; an exception of the call leaves the loop instead
      [] pc[t] = "done" /\ Nested(t) /\ result[t].kind = "return" ->
            {"_callbacks"}
      [] OTHER -> {}

\* C10: a thread about to read or write the catalog, the subscription
\* table or the callback sets holds the lock of the session.
C10_GuardedByLock ==
    \A t \in Threads : Accesses(t) # {} => lock = Thread(t)

----------------------------------------------------------------------------
(* Concurrent calls of subscribe *)

\* Thread t is between the compare of line 158 and the record of line 165.
InSubscribe(t) == pc[t] \in {"sub_register", "sub_write", "sub_record"}

\* The calls of t and u are subscribes that have ended, for the same
\* properties on one value handle that had no record when either began.
SameSubscribes(t, u) ==
    /\ t # u
    /\ Ended(t, "subscribe") /\ Entered(t)
    /\ Ended(u, "subscribe") /\ Entered(u)
    /\ ValueHandle(t) = ValueHandle(u)
    /\ frame[t].args.indication = frame[u].args.indication
    /\ ValueHandle(t) \notin DOMAIN hist[t].pre.subscribed
    /\ ValueHandle(u) \notin DOMAIN hist[u].pre.subscribed

\* The writes of a call that the transport carried out.
Succeeded(wrote) == { i \in 1..Len(wrote) : wrote[i].ok }

\* The writes that the calls of t and u issued, and those that failed.
Writes(t, u) == Len(hist[t].wrote) + Len(hist[u].wrote)
Failed(wrote) == { i \in 1..Len(wrote) : ~wrote[i].ok }

\* No thread is between its compare and its record while another one is.
CompareWriteRecordAtomic ==
    \A t, u \in Threads :
        /\ t # u => ~(InSubscribe(t) /\ InSubscribe(u))
        /\ InSubscribe(t) => lock = Thread(t)

\* C11, as the claim states it: of two threads that call subscribe with
\* the same properties on one value handle that has no record, exactly one
\* issues the configuration write, in every interleaving; and the compare,
\* the write and the record of one call are never interleaved with those
\* of another.  It does not hold: a call whose write fails records
\* nothing, and the other call, finding no record, writes as well.
C11_ExactlyOneWrites ==
    /\ CompareWriteRecordAtomic
    /\ \A t, u \in Threads : SameSubscribes(t, u) => Writes(t, u) = 1

\* C11, amended: of two threads that call subscribe with the same
\* properties on one value handle that has no record, one call at least
\* issues the configuration write; when no write fails exactly one does
\* and the other skips it; a call writes after another only when the
\* write of that one failed, so that one write at most succeeds; and the
\* compare, the write and the record of one call are never interleaved
\* with those of another.
C11_FirstWriterWins ==
    /\ CompareWriteRecordAtomic
    /\ \A t, u \in Threads :
          SameSubscribes(t, u) =>
              /\ Writes(t, u) >= 1
              /\ Failed(hist[t].wrote) = {} /\ Failed(hist[u].wrote) = {} =>
                    Writes(t, u) = 1
              /\ Cardinality(Succeeded(hist[t].wrote))
                    + Cardinality(Succeeded(hist[u].wrote)) <= 1

\* Two concurrent subscribes for the same properties on one handle have
\* returned; the one wrote, the other did not.
C11_Witness ==
    \E t, u \in Threads :
        /\ SameSubscribes(t, u)
        /\ result[t] = Return(None) /\ result[u] = Return(None)
        /\ Len(hist[t].wrote) = 1 /\ hist[u].wrote = <<>>

----------------------------------------------------------------------------
(* Failures of the configuration write, and the scope of unsubscribe *)

\* C12: a subscribe whose configuration write fails raises the error of the
\* transport and leaves the callback sets and the subscription table as
\* they were when it was called.
C12_FailedSubscribeLeavesNoTrace ==
    \A t \in Threads :
        ( /\ Ended(t, "subscribe") /\ Entered(t)
          /\ \E i \in 1..Len(hist[t].wrote) : ~hist[t].wrote[i].ok ) =>
            /\ result[t] = Raise("TransportError")
            /\ callbacks = hist[t].pre.callbacks
            /\ subscribed = hist[t].pre.subscribed

\* C13: the unsubscribe of a characteristic that the call before subscribed
\* with a service UUID resolves the value handle that subscribe resolved,
\* removes its record and its callbacks, and writes to no other handle
\* than that one plus one.
C13_UnsubscribeScoped ==
    \A t \in Threads :
        ( /\ Ended(t, "unsubscribe") /\ Entered(t)
          /\ prev # None /\ prev.op = "subscribe" /\ prev.kind = "return"
          /\ prev.char_uuid = frame[t].char_uuid
          /\ prev.srvc_uuid # None ) =>
            /\ ValueHandle(t) = prev.characteristic.handle
            /\ \A i \in 1..Len(hist[t].wrote) :
                  hist[t].wrote[i].handle = prev.characteristic.handle + 1
            /\ result[t].kind = "return" =>
                  /\ prev.characteristic.handle \notin DOMAIN subscribed
                  /\ prev.characteristic.handle \notin DOMAIN callbacks

\* The value handles of the device.
ValueHandles == {10, 12, 20}

\* Thread t is inside the with statement of subscribe or unsubscribe.
InCritical(t) == pc[t] \in {"sub_register", "sub_write", "sub_record",
                            "unsub_remove", "unsub_write"}

\* The configuration a table or the device holds for a handle, zero when
\* it holds none.
OrZero(d, handle) == DictGet(d, handle, ByteArray(<<0, 0>>))

\* C14: while no thread is inside the with statement of subscribe or
\* unsubscribe, the properties recorded for a value handle, zero when none
\* are, are the value last written with success to the handle plus one,
\* zero when none was.
C14_RecordEqualsWire ==
    (\A t \in Threads : ~InCritical(t)) =>
        \A value_handle \in ValueHandles :
            OrZero(subscribed, value_handle)
                = OrZero(wire, ConfigHandle(value_handle))

----------------------------------------------------------------------------
(* The resolver, with threads running concurrently *)

\* C15: a get_handle that raises the not-found error has called discover
\* once itself, and a get_handle whose first search found the
\* characteristic (it did not go on to discover) returns a handle,
\* whatever the other threads do to the catalog meanwhile.
C15_ResolveUndisturbed ==
    \A t \in Threads :
        Resolved(t) =>
            /\ result[t] = Raise("BLEError") => hist[t].ndisc = 1
            /\ hist[t].ndisc = 0 => result[t].kind = "return"

----------------------------------------------------------------------------
(* The session after a failing callback, and what the tables hold *)

\* C16: when a callback raises in receive_notification, the subscription
\* table, the callback sets and the catalog are as they were when the
\* notification arrived, and the lock is unlocked: the call that follows
\* finds it free.
C16_FailingCallbackLeavesState ==
    \A t \in Threads :
        /\ ( /\ Ended(t, "receive_notification")
             /\ result[t] = Raise("CallbackError") ) =>
              /\ subscribed = hist[t].pre.subscribed
              /\ callbacks = hist[t].pre.callbacks
              /\ services = hist[t].pre.services
              /\ lock = None
        /\ ( /\ prev # None /\ prev.op = "receive_notification"
             /\ prev.kind = "raise"
             /\ pc[t] \in {"sub_lock", "unsub_lock", "rn_lock"} ) =>
              lock = None

\* A subscribe has taken the lock after a dispatch in which a callback
\* raised.
C16_Witness ==
    \E t \in Threads :
        /\ prev # None /\ prev.op = "receive_notification"
        /\ prev.kind = "raise"
        /\ pc[t] = "sub_register" /\ lock = Thread(t)
        /\ subscribed # EmptyDict /\ callbacks # EmptyDict

\* C17: while no thread is inside the with statement of subscribe or
\* unsubscribe, every value handle of the subscription table records
\* [0x01, 0x00] or [0x02, 0x00], and every value handle of the callback
\* registry has a callback.
C17_TableMembership ==
    (\A t \in Threads : ~InCritical(t)) =>
        /\ \A h \in DOMAIN subscribed :
              subscribed[h] \in {ByteArray(<<1, 0>>), ByteArray(<<2, 0>>)}
        /\ \A h \in DOMAIN callbacks : callbacks[h] # {}

\* A notification for a handle that is subscribed without a callback has
\* been dropped.
C17_Witness ==
    \E t \in Threads :
        /\ \A u \in Threads : ~InCritical(u)
        /\ Ended(t, "receive_notification")
        /\ frame[t].args.handle \in DOMAIN subscribed
        /\ frame[t].args.handle \notin DOMAIN callbacks
        /\ hist[t].invoked = <<>>

----------------------------------------------------------------------------
(* Discovery and the lock *)

\* C18: a thread that is in discover does not hold the lock of the
\* session, whichever method it resolves the handle for.
C18_DiscoverOutsideLock ==
    \A t \in Threads : pc[t] = "discover" => lock # Thread(t)

\* A notification is being dispatched, the lock taken, while another
\* thread is in the discover of its subscribe.
C18_Witness ==
    \E t, u \in Threads :
        /\ pc[t] = "discover" /\ frame[t].op = "subscribe"
        /\ pc[u] = "rn_invoke" /\ lock = Thread(u)

----------------------------------------------------------------------------
(* Termination under fair scheduling *)

\* C19: every call of get_handle, char_write, subscribe, unsubscribe and
\* receive_notification ends, whatever the other threads call and whether
\* discover, the writes and the callbacks return or fail; and a thread
\* that is in no call, or whose call has ended, does not hold the lock.
C19_EveryCallEnds ==
    /\ [](\A t \in Threads : pc[t] \in {"idle", "done"} => lock # Thread(t))
    /\ \A t \in Threads : (pc[t] # "idle") ~> (pc[t] = "done")

\* A notification is being dispatched, the lock taken, after the
\* configuration write of another thread's subscribe failed.
C19_Witness ==
    \E t, u \in Threads :
        /\ Ended(t, "subscribe") /\ result[t] = Raise("TransportError")
        /\ pc[u] = "rn_invoke" /\ lock = Thread(u)

----------------------------------------------------------------------------
(* Callbacks that call back into the session *)

\* The call a callback of t made is at the with statement of subscribe or
\* unsubscribe: it resolved its characteristic and waits for the lock.
Blocked(t) == Nested(t) /\ pc[t] \in {"sub_lock", "unsub_lock"}

\* Thread t is at a with statement.
AtLock(t) == pc[t] \in {"sub_lock", "unsub_lock", "rn_lock"}

\* C20: a callback runs with the lock held by its thread; the subscribe or
\* unsubscribe it calls never gets into the with statement, and once it
\* waits there the thread takes no step any more, the lock stays with it
\* (its receive_notification does not return), and no thread that is at a
\* with statement gets past it; a callback that calls get_handle is never
\* held up.
C20_ReentrantDeadlock ==
    /\ [](\A t \in Threads :
            /\ Nested(t) => lock = Thread(t)
            /\ Nested(t) /\ frame[t].op \in {"subscribe", "unsubscribe"} =>
                  /\ ~InCritical(t)
                  /\ pc[t] = "done" => result[t].kind = "raise"
            /\ Blocked(t) => ~ENABLED ReentrantStep(t, ReentrantInputs)
            /\ Nested(t) /\ frame[t].op = "get_handle" =>
                  ENABLED ReentrantStep(t, ReentrantInputs))
    /\ [][\A t, u \in Threads :
            Blocked(t) =>
                /\ Blocked(t)' /\ lock' = Thread(t)
                /\ frame'[t] = frame[t]
                /\ AtLock(u) => pc'[u] = pc[u]]_vars

\* A callback's subscribe waits for the lock its own thread holds, and the
\* other thread waits at the with statement of its call.
C20_Witness ==
    \E t, u \in Threads :
        /\ Blocked(t) /\ frame[t].op = "subscribe"
        /\ t # u /\ AtLock(u)

====
